---- MODULE Spec2Model ----
(***************************************************************************)
(* A model of adanet/core/iteration.py: the validated _Iteration record,   *)
(* _IterationBuilder.build_iteration with the selection of the best        *)
(* candidate's outputs, and the execution of the fused train op by the     *)
(* workers that share is_over_var, the global step and the iteration step. *)
(*                                                                         *)
(* Tensors are modelled by the value they evaluate to, an integer.  Python *)
(* lists are sequences; a candidate's Python index i is position i + 1.    *)
(***************************************************************************)
EXTENDS Integers, Sequences, FiniteSets, TLC

(* ------------------------------ bounds -------------------------------- *)

\* The longest list of subnetwork builders passed to build_iteration.
MaxBuilders == 2

\* The most builders of an iteration whose train op is run.
MaxTrained == 1

\* adanet_loss values range over 0..MaxLoss.
MaxLoss == 1

\* A worker starts a pass of the train op only while the iteration step is
\* below MaxStep.
MaxStep == 2

(* ------------------------------ values -------------------------------- *)

\* tf.estimator.ModeKeys
TRAIN == "train"
EVAL == "eval"
PREDICT == "infer"
ModeKeys == {TRAIN, EVAL, PREDICT}

\* Python's None where a tensor is expected.
NoTensor == -1

\* What indexing a stacked list past its end evaluates to.
OutOfRange == -2

\* Python's None where an object is expected, and an object that is not None.
None == [none |-> TRUE]
IsNone(x) == x = None

\* Every string used as a dictionary key, in Python's sorted() order.
SortedStrings ==
  << "accuracy", "accuracy/adanet/adanet_weighted_ensemble", "adanet_loss",
     "classes", "dnn", "linear", "logits",
     "loss/adanet/adanet_weighted_ensemble", "predict", "previous_ensemble",
     "serving_default" >>

\* sorted(d) for a dictionary d: its keys in ascending order.
Sorted(d) == SelectSeq(SortedStrings, LAMBDA k : k \in DOMAIN d)

\* The empty dictionary {}.
EmptyDict == [k \in {} |-> 0]

\* d[key] = value on a copy of d.
DictSet(d, key, value) == (key :> value) @@ d

\* A prediction that is one tensor, or a dictionary of tensors.
TensorPredictions(t) == [tag |-> "tensor", t |-> t]
DictPredictions(d) == [tag |-> "dict", d |-> d]

\* tf.estimator.export outputs.  PredictOutput wraps a single tensor into a
\* dictionary under the key "output".
ClassificationOutput(scores, classes) ==
  [type |-> "ClassificationOutput", scores |-> scores, classes |-> classes]
RegressionOutput(value) == [type |-> "RegressionOutput", value |-> value]
PredictOutput(outputs) ==
  [type |-> "PredictOutput",
   outputs |-> IF outputs.tag = "dict" THEN outputs.d
               ELSE [k \in {"output"} |-> outputs.t]]
\* An ExportOutput subclass that is none of the three above.
OtherExportOutput == [type |-> "ExportOutput"]

\* A metric: its value tensor and the set of ops its update op runs.
Metric(value, update_op) == [value |-> value, update_op |-> update_op]

\* tf.metrics.mean(x): the metric whose value is the running mean of x.
MetricsMean(x) == Metric(x, {[op |-> "mean_update_op", of |-> x]})

\* subnetwork.Report
Report(hparams, attributes, metrics) ==
  [hparams |-> hparams, attributes |-> attributes, metrics |-> metrics]

\* tf.stack(list)[index]
StackIndex(list, index) ==
  IF index < Len(list) THEN list[index + 1] ELSE OutOfRange

\* An exception raised out of a call, and a value returned by it.
Raise(exc, msg) == [ok |-> FALSE, exc |-> exc, msg |-> msg]
Return(value) == [ok |-> TRUE, value |-> value]

(* --------------------------- class _Iteration -------------------------- *)

\* A Python value together with its type, for the arguments whose type
\* _Iteration.__new__ checks.
PyInt(n) == [type |-> "int", v |-> n]
PyFloat(n) == [type |-> "float", v |-> n]
PyList(l) == [type |-> "list", v |-> l]
PyTuple(l) == [type |-> "tuple", v |-> l]
PyDict(d) == [type |-> "dict", v |-> d]

\* _Iteration.__new__ with its validation removed after the number checks.
_Iteration_unvalidated(number, candidates, estimator_spec, best_candidate_index, summaries, is_over_fn, subnetwork_reports, step) ==
  IF number.type # "int"
  THEN Raise("ValueError", "number must be an integer")
  ELSE IF number.v < 0
  THEN Raise("ValueError", "number must be greater than 0")
  ELSE Return([number |-> number, candidates |-> candidates,
               estimator_spec |-> estimator_spec,
               best_candidate_index |-> best_candidate_index,
               summaries |-> summaries, is_over_fn |-> is_over_fn,
               subnetwork_reports |-> subnetwork_reports, step |-> step])

\* _Iteration.__new__: the validated record, or the ValueError it raises.
_Iteration(number, candidates, estimator_spec, best_candidate_index, summaries, is_over_fn, subnetwork_reports, step) ==
  IF number.type # "int"
  THEN Raise("ValueError", "number must be an integer")
  ELSE IF number.v < 0
  THEN Raise("ValueError", "number must be greater than 0")
  ELSE IF candidates.type # "list" \/ candidates.v = << >>
  THEN Raise("ValueError", "candidates must be a non-empty list")
  ELSE IF IsNone(estimator_spec)
  THEN Raise("ValueError", "estimator_spec is required")
  ELSE IF best_candidate_index = NoTensor
  THEN Raise("ValueError", "best_candidate_index is required")
  ELSE IF subnetwork_reports.type # "dict"
  THEN Raise("ValueError", "subnetwork_reports must be a dict")
  ELSE IF IsNone(step)
  THEN Raise("ValueError", "step is required")
  ELSE Return([number |-> number, candidates |-> candidates,
               estimator_spec |-> estimator_spec,
               best_candidate_index |-> best_candidate_index,
               summaries |-> summaries, is_over_fn |-> is_over_fn,
               subnetwork_reports |-> subnetwork_reports, step |-> step])

(* --------------------- selection of the best candidate ----------------- *)

\* tf.argmin(values, axis=0) with the last of several minima.
ArgMin_last(values) ==
  CHOOSE i \in 0..(Len(values) - 1) :
    /\ \A j \in 0..(Len(values) - 1) : values[i + 1] <= values[j + 1]
    /\ \A j \in (i + 1)..(Len(values) - 1) : values[j + 1] > values[i + 1]

\* tf.argmin(values, axis=0): the index of the smallest value, the first of
\* them when several are smallest.
ArgMin(values) ==
  CHOOSE i \in 0..(Len(values) - 1) :
    /\ \A j \in 0..(Len(values) - 1) : values[i + 1] <= values[j + 1]
    /\ \A j \in 0..(i - 1) : values[j + 1] > values[i + 1]

\* _IterationBuilder._best_candidate_index
_best_candidate_index(candidates) ==
  IF Len(candidates) = 1 THEN 0
  ELSE ArgMin([i \in 1..Len(candidates) |-> candidates[i].adanet_loss])

\* The loop of _best_predictions over candidates[i..]: `predictions` is
\* None, a dictionary of lists or a list; an exception ends the loop.
RECURSIVE CollectPredictions(_, _, _)
CollectPredictions(candidates, i, predictions) ==
  IF i > Len(candidates) THEN Return(predictions)
  ELSE
    LET p == candidates[i].ensemble_spec.predictions
        \* `not predictions`: None, {} or []
        empty == \/ IsNone(predictions)
                 \/ (predictions.tag = "dict" /\ DOMAIN predictions.d = {})
                 \/ (predictions.tag = "list" /\ predictions.l = << >>)
    IN IF p.tag = "dict"
       THEN LET start == IF empty THEN [tag |-> "dict", d |-> EmptyDict]
                         ELSE predictions
            IN IF start.tag = "list" /\ DOMAIN p.d # {}
               THEN Raise("TypeError", "list indices must be integers")
               ELSE CollectPredictions(candidates, i + 1,
                      IF start.tag = "list" THEN start
                      ELSE [tag |-> "dict",
                            d |-> [key \in DOMAIN start.d \cup DOMAIN p.d |->
                                    IF key \notin DOMAIN p.d THEN start.d[key]
                                    ELSE IF key \in DOMAIN start.d
                                    THEN Append(start.d[key], p.d[key])
                                    ELSE << p.d[key] >>]])
       ELSE LET start == IF empty THEN [tag |-> "list", l |-> << >>]
                         ELSE predictions
            IN IF start.tag = "dict"
               THEN Raise("AttributeError", "'dict' object has no attribute 'append'")
               ELSE CollectPredictions(candidates, i + 1,
                      [tag |-> "list", l |-> Append(start.l, p.t)])

\* _IterationBuilder._best_predictions
_best_predictions(candidates, best_candidate_index) ==
  IF Len(candidates) = 1
  THEN Return(candidates[1].ensemble_spec.predictions)
  ELSE
    LET collected == CollectPredictions(candidates, 1, None)
    IN IF ~collected.ok THEN collected
       ELSE IF collected.value.tag = "dict"
       THEN Return(DictPredictions(
              [key \in DOMAIN collected.value.d |->
                StackIndex(collected.value.d[key], best_candidate_index)]))
       ELSE Return(TensorPredictions(
              StackIndex(collected.value.l, best_candidate_index)))

\* _IterationBuilder._best_loss
_best_loss(candidates, best_candidate_index, mode) ==
  IF mode = PREDICT THEN NoTensor
  ELSE IF Len(candidates) = 1 THEN candidates[1].ensemble_spec.loss
  ELSE StackIndex([i \in 1..Len(candidates) |->
                    candidates[i].ensemble_spec.loss],
                  best_candidate_index)

\* GroupExportOutput with a TypeError for an export_output whose type differs
\* from the type already grouped under the key.
GroupExportOutput_typed(groups, key, export_output) ==
  IF ~groups.ok THEN groups
  ELSE
    LET g == groups.value
        has == key \in DOMAIN g
        tag == IF export_output.type = "ClassificationOutput" THEN "pair" ELSE "list"
    IN IF export_output.type = "PredictOutput" THEN groups
       ELSE IF export_output.type \notin {"ClassificationOutput", "RegressionOutput"}
               \/ (has /\ g[key].tag # tag)
       THEN Raise("TypeError", "Values in export_outputs must be ClassificationOutput, RegressionOutput, or PredictOutput objects.")
       ELSE IF tag = "list"
       THEN Return(DictSet(g, key,
              [tag |-> "list",
               l |-> Append(IF has THEN g[key].l ELSE << >>, export_output.value)]))
       ELSE LET e == IF has THEN g[key]
                     ELSE [tag |-> "pair", scores |-> << >>, classes |-> << >>]
            IN Return(DictSet(g, key,
                 [tag |-> "pair",
                  scores |-> IF export_output.scores # NoTensor
                             THEN Append(e.scores, export_output.scores)
                             ELSE e.scores,
                  classes |-> IF export_output.classes # NoTensor
                              THEN Append(e.classes, export_output.classes)
                              ELSE e.classes]))

\* export_outputs[key] of _best_export_outputs after one more export_output
\* of a candidate: a pair of lists (scores, classes) for a
\* ClassificationOutput, a list for a RegressionOutput.  `groups` is
\* Return(export_outputs) or the exception already raised.
GroupExportOutput(groups, key, export_output) ==
  IF ~groups.ok THEN groups
  ELSE
    LET g == groups.value
        has == key \in DOMAIN g
    IN CASE export_output.type = "ClassificationOutput" ->
              LET e == IF has THEN g[key]
                       ELSE [tag |-> "pair", scores |-> << >>, classes |-> << >>]
              IN IF e.tag = "list"
                 THEN \* export_outputs[key] is a list of tensors
                      IF export_output.scores # NoTensor
                      THEN Raise("AttributeError", "'Tensor' object has no attribute 'append'")
                      ELSE IF export_output.classes = NoTensor THEN groups
                      ELSE IF Len(e.l) < 2
                      THEN Raise("IndexError", "list index out of range")
                      ELSE Raise("AttributeError", "'Tensor' object has no attribute 'append'")
                 ELSE Return(DictSet(g, key,
                        [tag |-> "pair",
                         scores |-> IF export_output.scores # NoTensor
                                    THEN Append(e.scores, export_output.scores)
                                    ELSE e.scores,
                         classes |-> IF export_output.classes # NoTensor
                                     THEN Append(e.classes, export_output.classes)
                                     ELSE e.classes]))
         [] export_output.type = "RegressionOutput" ->
              LET e == IF has THEN g[key] ELSE [tag |-> "list", l |-> << >>]
              IN IF e.tag = "pair"
                 THEN Raise("AttributeError", "'tuple' object has no attribute 'append'")
                 ELSE Return(DictSet(g, key,
                        [tag |-> "list", l |-> Append(e.l, export_output.value)]))
         [] export_output.type = "PredictOutput" -> groups
         [] OTHER ->
              Raise("TypeError", "Values in export_outputs must be ClassificationOutput, RegressionOutput, or PredictOutput objects.")

\* The first loop of _best_export_outputs, from key number k of candidate i.
RECURSIVE GroupExportOutputs(_, _, _, _)
GroupExportOutputs(candidates, i, k, groups) ==
  IF ~groups.ok \/ i > Len(candidates) THEN groups
  ELSE
    LET export_outputs == candidates[i].ensemble_spec.export_outputs
        keys == Sorted(export_outputs)
    IN IF k > Len(keys) THEN GroupExportOutputs(candidates, i + 1, 1, groups)
       ELSE GroupExportOutputs(candidates, i, k + 1,
              GroupExportOutput(groups, keys[k], export_outputs[keys[k]]))

\* The second loop of _best_export_outputs: the output built for `key`.
BestExportOutput(candidates, groups, key, best_candidate_index, best_predictions) ==
  LET export_output == candidates[1].ensemble_spec.export_outputs[key]
  IN CASE export_output.type = "ClassificationOutput" ->
            ClassificationOutput(
              IF groups[key].scores # << >>
              THEN StackIndex(groups[key].scores, best_candidate_index)
              ELSE NoTensor,
              IF groups[key].classes # << >>
              THEN StackIndex(groups[key].classes, best_candidate_index)
              ELSE NoTensor)
       [] export_output.type = "RegressionOutput" ->
            RegressionOutput(StackIndex(groups[key].l, best_candidate_index))
       [] OTHER -> PredictOutput(best_predictions)

\* _IterationBuilder._best_export_outputs: None outside PREDICT, else the
\* dictionary of export outputs.
_best_export_outputs(candidates, best_candidate_index, mode, best_predictions) ==
  IF mode # PREDICT THEN Return(None)
  ELSE IF Len(candidates) = 1
  THEN Return(candidates[1].ensemble_spec.export_outputs)
  ELSE
    LET groups == GroupExportOutputs(candidates, 1, 1, Return(EmptyDict))
    IN IF ~groups.ok THEN groups
       ELSE Return([key \in DOMAIN candidates[1].ensemble_spec.export_outputs |->
              BestExportOutput(candidates, groups.value, key,
                               best_candidate_index, best_predictions)])

(* ------------------------------ eval metrics --------------------------- *)

\* The decimal digits of n: the text "{}".format(n).
RECURSIVE Digits(_)
Digits(n) == IF n < 10 THEN << n >> ELSE Append(Digits(n \div 10), n % 10)

\* Python's order on two texts of digits.
RECURSIVE TextLess(_, _)
TextLess(a, b) ==
  IF a = << >> THEN b # << >>
  ELSE IF b = << >> THEN FALSE
  ELSE IF Head(a) # Head(b) THEN Head(a) < Head(b)
  ELSE TextLess(Tail(a), Tail(b))

\* "candidate_{}".format(i), held as the digits after the fixed prefix.
CandidateKey(i) == Digits(i)

\* sorted(fns) for a dictionary keyed by candidate keys.
RECURSIVE SortedKeys(_)
SortedKeys(keys) ==
  IF keys = {} THEN << >>
  ELSE LET first == CHOOSE k \in keys : \A o \in keys \ {k} : TextLess(k, o)
       IN << first >> \o SortedKeys(keys \ {first})

\* metric_fn(**kwargs): one metric per name of the function, computed from
\* the tensor it is given.
CallMetricFn(metric_fn, kwargs) ==
  [metric_name \in metric_fn |-> Metric(kwargs.x, {[op |-> "update_op", of |-> kwargs.x]})]

\* _IterationBuilder._collate_metric_fns_and_tensors: (fns, tensors)
_collate_metric_fns_and_tensors(candidates) ==
  LET with == {i \in 0..(Len(candidates) - 1) :
                 ~IsNone(candidates[i + 1].ensemble_spec.eval_metrics)}
      OfKey(key) == CHOOSE i \in with : CandidateKey(i) = key
  IN [fns |-> [key \in {CandidateKey(i) : i \in with} |->
                candidates[OfKey(key) + 1].ensemble_spec.eval_metrics.metric_fn],
      tensors |-> [key \in {CandidateKey(i) : i \in with} |->
                candidates[OfKey(key) + 1].ensemble_spec.eval_metrics.kwargs]]

\* dict_utils.flatten_dict on the collated tensors and the tiled best index:
\* one entry per (candidate key, argument name), and the best index.
flatten_dict(tensors, best_candidate_index) ==
  LET nested == {[prefix |-> key, key |-> arg] :
                   key \in DOMAIN tensors, arg \in {"x"}}
  IN [k \in nested \cup {[key |-> "best_candidate_index"]} |->
       IF k = [key |-> "best_candidate_index"] THEN best_candidate_index
       ELSE tensors[k.prefix][k.key]]

\* dict_utils.unflatten_dict(kwargs, prefixes): the nested tensors again.
unflatten_dict(kwargs, prefixes) ==
  [candidates |-> [prefix \in prefixes |->
                    [arg \in {k.key : k \in {f \in DOMAIN kwargs :
                               f # [key |-> "best_candidate_index"]
                               /\ f.prefix = prefix}} |->
                      kwargs[[prefix |-> prefix, key |-> arg]]]],
   best_candidate_index |-> kwargs[[key |-> "best_candidate_index"]]]

\* tf.tile([x], [batch_size]) and the value of tf.metrics.mean of it.
Tile(x, batch_size) == [i \in 1..batch_size |-> x]
RECURSIVE Sum(_)
Sum(list) == IF list = << >> THEN 0 ELSE Head(list) + Sum(Tail(list))
Mean(list) == Sum(list) \div Len(list)

\* The loop of _group_metric_ops over the sorted keys from position k on.
RECURSIVE GroupMetricOps(_, _, _, _, _)
GroupMetricOps(metric_fns, tensors, keys, k, grouped_metrics) ==
  IF k > Len(keys) THEN grouped_metrics
  ELSE
    LET eval_metric_ops == CallMetricFn(metric_fns[keys[k]], tensors[keys[k]])
    IN GroupMetricOps(metric_fns, tensors, keys, k + 1,
         [metric_name \in DOMAIN grouped_metrics \cup DOMAIN eval_metric_ops |->
           IF metric_name \notin DOMAIN eval_metric_ops
           THEN grouped_metrics[metric_name]
           ELSE IF metric_name \in DOMAIN grouped_metrics
           THEN Append(grouped_metrics[metric_name], eval_metric_ops[metric_name])
           ELSE << eval_metric_ops[metric_name] >>])

\* _IterationBuilder._group_metric_ops
_group_metric_ops(metric_fns, tensors) ==
  GroupMetricOps(metric_fns, tensors, SortedKeys(DOMAIN metric_fns), 1, EmptyDict)

\* metric_name.endswith("/adanet/adanet_weighted_ensemble") and
\* metric_name[:-len(suffix)], on the metric names of SortedStrings.
EndsWithSuffix(metric_name) ==
  metric_name \in {"accuracy/adanet/adanet_weighted_ensemble",
                   "loss/adanet/adanet_weighted_ensemble"}
StripSuffix(metric_name) ==
  IF metric_name = "accuracy/adanet/adanet_weighted_ensemble" THEN "accuracy"
  ELSE "loss"

\* The loop of _best_eval_metrics_fn without its test of the number of
\* metric ops grouped under a name.
RECURSIVE BestEvalMetrics_anyCount(_, _, _, _, _, _)
BestEvalMetrics_anyCount(grouped_metrics, names, k, n_candidates, best_candidate_index, eval_metric_ops) ==
  IF k > Len(names) THEN eval_metric_ops
  ELSE
    LET metric_name == names[k]
        metric_ops == grouped_metrics[metric_name]
        best_candidate_metric ==
          Metric(StackIndex([i \in 1..Len(metric_ops) |-> metric_ops[i].value],
                            Mean(best_candidate_index)),
                 UNION {metric_ops[i].update_op : i \in 1..Len(metric_ops)}
                   \cup {[op |-> "idx_update_op"]})
        with_name == DictSet(eval_metric_ops, metric_name, best_candidate_metric)
    IN BestEvalMetrics_anyCount(grouped_metrics, names, k + 1, n_candidates,
         best_candidate_index,
         IF ~EndsWithSuffix(metric_name) \/ StripSuffix(metric_name) = "loss"
         THEN with_name
         ELSE DictSet(with_name, StripSuffix(metric_name), best_candidate_metric))

\* The loop of _best_eval_metrics_fn over the sorted metric names from k on.
RECURSIVE BestEvalMetrics(_, _, _, _, _, _)
BestEvalMetrics(grouped_metrics, names, k, n_candidates, best_candidate_index, eval_metric_ops) ==
  IF k > Len(names) THEN eval_metric_ops
  ELSE
    LET metric_name == names[k]
        metric_ops == grouped_metrics[metric_name]
        idx == Mean(best_candidate_index)
        best_candidate_metric ==
          Metric(StackIndex([i \in 1..Len(metric_ops) |-> metric_ops[i].value], idx),
                 UNION {metric_ops[i].update_op : i \in 1..Len(metric_ops)}
                   \cup {[op |-> "idx_update_op"]})
        with_name == DictSet(eval_metric_ops, metric_name, best_candidate_metric)
    IN BestEvalMetrics(grouped_metrics, names, k + 1, n_candidates, best_candidate_index,
         IF Len(metric_ops) # n_candidates THEN eval_metric_ops
         ELSE IF ~EndsWithSuffix(metric_name) THEN with_name
         ELSE IF StripSuffix(metric_name) = "loss" THEN with_name
         ELSE DictSet(with_name, StripSuffix(metric_name), best_candidate_metric))

\* _IterationBuilder._create_best_eval_metrics_tuple followed by the call
\* metric_fn(**kwargs) of build_iteration: the eval_metric_ops, None outside
\* EVAL.
_create_best_eval_metrics_tuple(candidates, best_candidate_index, mode, params) ==
  IF mode # EVAL THEN None
  ELSE
    LET collated == _collate_metric_fns_and_tensors(candidates)
        batch_size == IF IsNone(params) THEN 1 ELSE params.batch_size
        kwargs == flatten_dict(collated.tensors, Tile(best_candidate_index, batch_size))
        tensors == unflatten_dict(kwargs, DOMAIN collated.fns)
        grouped_metrics == _group_metric_ops(collated.fns, tensors.candidates)
    IN BestEvalMetrics(grouped_metrics, Sorted(grouped_metrics), 1, Len(candidates),
                       tensors.best_candidate_index, EmptyDict)

(* ------------------------------- train op ------------------------------ *)

\* _assign_is_over over the candidates the builders gave, the first
\* candidate of the list left out.
_assign_is_over_withoutFirst(candidates) ==
  [op |-> "assign_is_over", candidates |-> 1..(Len(candidates) - 1)]

\* _IterationBuilder._assign_is_over: the op that reads is_training of every
\* candidate and assigns True to is_over_var when none is training.
_assign_is_over(candidates) ==
  [op |-> "assign_is_over", candidates |-> 0..(Len(candidates) - 1)]

\* _create_train_op without its test of the mode.
_create_train_op_anyMode(candidates, mode) ==
  [control_dependencies |->
     {[op |-> "assign_is_over", candidates |-> 0..(Len(candidates) - 1)]},
   group |-> {[op |-> "assign_add", var |-> "global_step"],
              [op |-> "assign_add", var |-> "step"]}]

\* _IterationBuilder._create_train_op: the ops the returned op depends on
\* (tf.control_dependencies) and the ops it groups (tf.group).
_create_train_op(candidates, mode) ==
  IF mode # TRAIN
  THEN [control_dependencies |-> {}, group |-> {[op |-> "no_op"]}]
  ELSE
    LET trained == {i \in 0..(Len(candidates) - 1) :
                      ~IsNone(candidates[i + 1].ensemble_spec.subnetwork_train_op)}
    IN [control_dependencies |->
          {[op |-> "subnetwork_train_op", candidate |-> i] : i \in trained}
          \cup {[op |-> "ensemble_train_op", candidate |-> i] : i \in trained}
          \cup {_assign_is_over(candidates)},
        group |-> {[op |-> "assign_add", var |-> "global_step"],
                   [op |-> "assign_add", var |-> "step"]}]

\* The loop of build_iteration that collects the training hooks.
RECURSIVE TrainingHooks(_, _, _)
TrainingHooks(candidates, i, hooks) ==
  IF i > Len(candidates) THEN hooks
  ELSE
    LET spec == candidates[i].ensemble_spec
    IN TrainingHooks(candidates, i + 1,
         IF IsNone(spec.subnetwork_train_op) THEN hooks
         ELSE [training_chief_hooks |->
                 hooks.training_chief_hooks
                 \o spec.subnetwork_train_op.chief_hooks
                 \o spec.ensemble_train_op.chief_hooks,
               training_hooks |->
                 hooks.training_hooks
                 \o spec.subnetwork_train_op.hooks
                 \o spec.ensemble_train_op.hooks])

(* ---------------------------- build_iteration -------------------------- *)

\* _CandidateBuilder.build_candidate
build_candidate(ensemble_spec, training, is_previous_best) ==
  [ensemble_spec |-> ensemble_spec,
   adanet_loss |-> ensemble_spec.adanet_loss,
   training |-> training,
   is_previous_best |-> is_previous_best]

\* _EnsembleBuilder.append_new_subnetwork: the ensemble spec the builder's
\* subnetwork gives in `mode`.
append_new_subnetwork(subnetwork_builder, mode) ==
  [name |-> subnetwork_builder.ensemble_spec.name,
   mode |-> mode,
   adanet_loss |-> subnetwork_builder.ensemble_spec.adanet_loss,
   loss |-> subnetwork_builder.ensemble_spec.loss,
   predictions |-> subnetwork_builder.ensemble_spec.predictions,
   eval_metrics |-> subnetwork_builder.ensemble_spec.eval_metrics,
   export_outputs |-> subnetwork_builder.ensemble_spec.export_outputs,
   subnetwork_train_op |-> subnetwork_builder.ensemble_spec.subnetwork_train_op,
   ensemble_train_op |-> subnetwork_builder.ensemble_spec.ensemble_train_op]

\* _ScopedSummary(ensemble_name, skip_summary), with
\* ensemble_name = "t{}_{}".format(iteration_number, name).
_ScopedSummary(iteration_number, name, skip_summary) ==
  [t |-> iteration_number, name |-> name, skip_summary |-> skip_summary]

\* The ensemble mode build_iteration passes to append_new_subnetwork.
EnsembleMode(mode, rebuilding, replicate_ensemble_in_training) ==
  IF ~rebuilding THEN mode
  ELSE IF replicate_ensemble_in_training /\ mode = TRAIN THEN mode
  ELSE IF mode = PREDICT THEN mode
  ELSE EVAL

\* The report build_iteration makes for the previous ensemble.
PreviousEnsembleReport(previous_ensemble_spec) ==
  LET metrics == IF IsNone(previous_ensemble_spec.eval_metrics) THEN EmptyDict
                 ELSE CallMetricFn(previous_ensemble_spec.eval_metrics.metric_fn,
                                   previous_ensemble_spec.eval_metrics.kwargs)
  IN Report(EmptyDict, EmptyDict,
            DictSet(metrics, "adanet_loss",
                    MetricsMean(previous_ensemble_spec.adanet_loss)))

\* The report build_iteration makes for a subnetwork builder.
SubnetworkReport(subnetwork_builder, ensemble_spec) ==
  LET subnetwork_report ==
        IF IsNone(subnetwork_builder.report)
        THEN Report(EmptyDict, EmptyDict, EmptyDict)
        ELSE subnetwork_builder.report
      metrics == IF IsNone(ensemble_spec.eval_metrics) THEN EmptyDict
                 ELSE CallMetricFn(ensemble_spec.eval_metrics.metric_fn,
                                   ensemble_spec.eval_metrics.kwargs)
  IN Report(subnetwork_report.hparams, subnetwork_report.attributes,
            DictSet(metrics @@ subnetwork_report.metrics, "adanet_loss",
                    MetricsMean(ensemble_spec.adanet_loss)))

\* BeforeBuilders with the previous ensemble's name reserved but no candidate
\* made for it.
BeforeBuilders_noCarryover(args) ==
  [seen_builder_names |-> IF IsNone(args.previous_ensemble_spec) THEN {}
                          ELSE {args.previous_ensemble_spec.name},
   candidates |-> << >>, summaries |-> << >>, subnetwork_reports |-> EmptyDict]

\* What build_iteration holds before its loop over the builders.
BeforeBuilders(args) ==
  IF IsNone(args.previous_ensemble_spec)
  THEN [seen_builder_names |-> {}, candidates |-> << >>, summaries |-> << >>,
        subnetwork_reports |-> EmptyDict]
  ELSE [seen_builder_names |-> {args.previous_ensemble_spec.name},
        candidates |-> << build_candidate(args.previous_ensemble_spec,
                                          args.mode = TRAIN, TRUE) >>,
        summaries |-> << args.previous_ensemble_summary >>,
        subnetwork_reports |->
          IF args.mode = EVAL
          THEN DictSet(EmptyDict, "previous_ensemble",
                       PreviousEnsembleReport(args.previous_ensemble_spec))
          ELSE EmptyDict]

\* seen_builder_names[name] = True, and the same with the name left out.
SeenWith_forgotten(seen_builder_names, name) == seen_builder_names
SeenWith(seen_builder_names, name) == seen_builder_names \cup {name}

\* The loop of build_iteration over subnetwork_builders[k..]: `built` is
\* Return of what the loop holds, or the exception raised.
RECURSIVE BuildCandidates(_, _, _, _)
BuildCandidates(args, ensemble_mode, k, built) ==
  IF ~built.ok \/ k > Len(args.subnetwork_builders) THEN built
  ELSE
    LET subnetwork_builder == args.subnetwork_builders[k]
        b == built.value
        summary == _ScopedSummary(args.iteration_number, subnetwork_builder.name,
                                  args.mode = PREDICT \/ args.rebuilding)
        ensemble_spec == append_new_subnetwork(subnetwork_builder, ensemble_mode)
        candidate == build_candidate(ensemble_spec, args.mode = TRAIN, FALSE)
    IN BuildCandidates(args, ensemble_mode, k + 1,
         IF subnetwork_builder.name \in b.seen_builder_names
         THEN Raise("ValueError", "Two ensembles have the same name")
         ELSE Return(
           [seen_builder_names |-> SeenWith(b.seen_builder_names, subnetwork_builder.name),
            candidates |-> Append(b.candidates, candidate),
            summaries |-> Append(b.summaries, summary),
            subnetwork_reports |->
              IF args.mode # PREDICT
              THEN DictSet(b.subnetwork_reports, subnetwork_builder.name,
                           SubnetworkReport(subnetwork_builder, ensemble_spec))
              ELSE b.subnetwork_reports]))

\* tf.estimator.EstimatorSpec
EstimatorSpec(mode, predictions, loss, train_op, eval_metric_ops, export_outputs, hooks) ==
  [mode |-> mode, predictions |-> predictions, loss |-> loss,
   train_op |-> train_op, eval_metric_ops |-> eval_metric_ops,
   export_outputs |-> export_outputs,
   training_chief_hooks |-> hooks.training_chief_hooks,
   training_hooks |-> hooks.training_hooks]

\* _IterationBuilder.build_iteration: Return(the _Iteration) or the
\* exception raised.
build_iteration(args) ==
  IF args.subnetwork_builders = << >>
  THEN Raise("ValueError", "Each iteration must have at least one Builder.")
  ELSE
    LET ensemble_mode == EnsembleMode(args.mode, args.rebuilding,
                                      args.replicate_ensemble_in_training)
        built == BuildCandidates(args, ensemble_mode, 1, Return(BeforeBuilders(args)))
        candidates == built.value.candidates
        best_candidate_index == _best_candidate_index(candidates)
        best_predictions == _best_predictions(candidates, best_candidate_index)
        best_loss == _best_loss(candidates, best_candidate_index, args.mode)
        eval_metric_ops == _create_best_eval_metrics_tuple(
                             candidates, best_candidate_index, args.mode, args.params)
        best_export_outputs == _best_export_outputs(
                                 candidates, best_candidate_index, args.mode,
                                 best_predictions.value)
        hooks == TrainingHooks(candidates, 1,
                   [training_chief_hooks |-> << >>, training_hooks |-> << >>])
        estimator_spec == EstimatorSpec(args.mode, best_predictions.value, best_loss,
                            _create_train_op(candidates, args.mode),
                            eval_metric_ops, best_export_outputs.value, hooks)
    IN IF ~built.ok THEN built
       ELSE IF ~best_predictions.ok THEN best_predictions
       ELSE IF ~best_export_outputs.ok THEN best_export_outputs
       ELSE _Iteration(PyInt(args.iteration_number), PyList(candidates),
                       estimator_spec, best_candidate_index,
                       built.value.summaries, "is_over_var_fn",
                       PyDict(built.value.subnetwork_reports),
                       [tensor |-> "iteration_step"])

(* ------------------------- the calls that are made --------------------- *)

\* The tensor number `slot` of the ensemble built for candidate c.
Tensor(c, slot) == 10 * c + slot

\* The shapes a candidate's predictions, export outputs and eval metrics
\* take in the calls below.
PredictionShapes == {"tensor", "logits", "logits+classes"}
ExportShapes ==
  {"classification", "scores", "classes", "regression", "predict",
   "predict-other", "classification+predict", "other"}
MetricShapes == {"none", "accuracy", "ensemble", "accuracy+ensemble"}

InputPredictions(c, shape) ==
  CASE shape = "tensor" -> TensorPredictions(Tensor(c, 2))
    [] shape = "logits" -> DictPredictions([logits |-> Tensor(c, 2)])
    [] OTHER -> DictPredictions([logits |-> Tensor(c, 2), classes |-> Tensor(c, 3)])

InputExportOutputs(c, shape, predictions) ==
  CASE shape = "classification" ->
         [serving_default |-> ClassificationOutput(Tensor(c, 4), Tensor(c, 5))]
    [] shape = "scores" ->
         [serving_default |-> ClassificationOutput(Tensor(c, 4), NoTensor)]
    [] shape = "classes" ->
         [serving_default |-> ClassificationOutput(NoTensor, Tensor(c, 5))]
    [] shape = "regression" ->
         [serving_default |-> RegressionOutput(Tensor(c, 6))]
    [] shape = "predict" ->
         [serving_default |-> PredictOutput(predictions)]
    [] shape = "predict-other" ->
         [serving_default |-> PredictOutput(TensorPredictions(Tensor(c, 7)))]
    [] shape = "classification+predict" ->
         [serving_default |-> ClassificationOutput(Tensor(c, 4), Tensor(c, 5)),
          predict |-> PredictOutput(predictions)]
    [] OTHER -> [serving_default |-> OtherExportOutput]

InputEvalMetrics(c, shape) ==
  CASE shape = "none" -> None
    [] shape = "accuracy" ->
         [metric_fn |-> {"accuracy"}, kwargs |-> [x |-> Tensor(c, 8)]]
    [] shape = "ensemble" ->
         [metric_fn |-> {"accuracy/adanet/adanet_weighted_ensemble",
                         "loss/adanet/adanet_weighted_ensemble"},
          kwargs |-> [x |-> Tensor(c, 8)]]
    [] OTHER ->
         [metric_fn |-> {"accuracy", "accuracy/adanet/adanet_weighted_ensemble",
                         "loss/adanet/adanet_weighted_ensemble"},
          kwargs |-> [x |-> Tensor(c, 8)]]

\* A train op with its hooks.
InputTrainOp(t) == [train_op |-> t, chief_hooks |-> << >>, hooks |-> << t >>]

\* The ensemble spec of candidate c (0: the previous ensemble) as the
\* ensemble builder makes it in `mode`: no loss and the export outputs in
\* PREDICT, train ops for a new subnetwork in TRAIN.
InputEnsembleSpec(c, name, adanet_loss, mode, pshape, eshape, mshape) ==
  [name |-> name,
   adanet_loss |-> adanet_loss,
   loss |-> IF mode = PREDICT THEN NoTensor ELSE Tensor(c, 1),
   predictions |-> InputPredictions(c, pshape),
   eval_metrics |-> InputEvalMetrics(c, mshape),
   export_outputs |-> IF mode = PREDICT
                      THEN InputExportOutputs(c, eshape, InputPredictions(c, pshape))
                      ELSE None,
   subnetwork_train_op |-> IF mode = TRAIN /\ c > 0
                           THEN InputTrainOp(Tensor(c, 9)) ELSE None,
   ensemble_train_op |-> IF mode = TRAIN /\ c > 0
                         THEN InputTrainOp(Tensor(c, 0)) ELSE None]

\* A subnetwork builder: its name, what build_subnetwork_report returns (a
\* report for the builder named "dnn", None for the others) and the
\* ensemble spec its subnetwork gives.
InputBuilder(c, name, adanet_loss, mode, pshape, eshape, mshape) ==
  [name |-> name,
   report |-> IF name = "dnn"
              THEN Report([layers |-> 2], [complexity |-> 3],
                          [accuracy |-> MetricsMean(Tensor(c, 8))])
              ELSE None,
   ensemble_spec |-> InputEnsembleSpec(c, name, adanet_loss, mode, pshape, eshape, mshape)]

BuilderNames == {"dnn", "linear", "previous_ensemble"}
PreviousNames == {"linear", "t0_linear"}
Losses == 0..MaxLoss

\* The arguments of a call of build_iteration.
BuildArgs(iteration_number, mode, rebuilding, replicate, previous, builders) ==
  [fn |-> "build_iteration",
   iteration_number |-> iteration_number,
   mode |-> mode,
   rebuilding |-> rebuilding,
   replicate_ensemble_in_training |-> replicate,
   params |-> None,
   previous_ensemble_summary |->
     IF IsNone(previous) THEN None
     ELSE _ScopedSummary(iteration_number - 1, previous.name, FALSE),
   previous_ensemble_spec |-> previous,
   subnetwork_builders |-> builders]

\* All sequences over S of length n, and of length at most n.
Tuples(S, n) == [1..n -> S]

(* ----------------------------- the variables --------------------------- *)

VARIABLES
  call,            \* the call being made, with its arguments
  result,          \* None before the call returns, then what it returned
  is_over_var,     \* the variable "is_over_var" of the iteration
  global_step,     \* the global step variable
  iteration_step,  \* the variable "step" of the iteration
  workers,         \* each worker's place in its pass of the train op
  interleaved      \* history: a pass has started while another was running

vars ==
  << call, result, is_over_var, global_step, iteration_step, workers, interleaved >>

\* The workers that run the train op against the shared variables.
Workers == {"chief", "worker"}

\* A worker that is between two passes.
NotRead == -1
Idle ==
  [running |-> FALSE, done |-> {}, none_training |-> FALSE,
   read |-> [global_step |-> NotRead, step |-> NotRead]]

\* The variables as their initializers leave them.
InitVariables ==
  /\ result = None
  /\ is_over_var = FALSE
  /\ global_step = 0
  /\ iteration_step = 0
  /\ workers = [w \in Workers |-> Idle]
  /\ interleaved = FALSE

\* The previous ensemble specs of a call in `mode`: None, and one per name,
\* loss and shape.
Previous(mode, names, losses, pshapes, eshapes, mshapes) ==
  {None} \cup
  {InputEnsembleSpec(0, name, loss, mode, p, e, m) :
     name \in names, loss \in losses,
     p \in pshapes, e \in eshapes, m \in mshapes}

\* The builders' names: names that differ from each other, or any names.
Names(distinct, n) ==
  IF distinct
  THEN {[k \in 1..n |-> IF k = 1 THEN "dnn" ELSE IF k = 2 THEN "linear"
                        ELSE "previous_ensemble"]}
  ELSE Tuples(BuilderNames, n)

\* `call` is a call of build_iteration in a mode of `modes` with at most
\* `most` builders named by Names(distinct, n), for one choice of the previous
\* ensemble, the losses and the shapes.
Calls(modes, most, previous_names, distinct, losses, pshapes, eshapes, mshapes) ==
  \E mode \in modes, n \in 0..most :
    \E previous \in Previous(mode, previous_names, losses, pshapes, eshapes, mshapes),
       name \in Names(distinct, n), loss \in Tuples(losses, n), p \in Tuples(pshapes, n),
       e \in Tuples(eshapes, n), m \in Tuples(mshapes, n) :
      call = BuildArgs(1, mode, FALSE, FALSE, previous,
               [k \in 1..n |->
                 InputBuilder(k, name[k], loss[k], mode, p[k], e[k], m[k])])

\* Calls that differ in the names, the losses, the mode and the number of
\* builders.
NameCalls ==
  Calls(ModeKeys, MaxBuilders, PreviousNames, FALSE, Losses,
        {"tensor"}, {"regression"}, {"accuracy"})

\* Calls that differ in the shape of the candidates' predictions.
PredictionCalls ==
  Calls({EVAL, PREDICT}, MaxBuilders, {"t0_linear"}, TRUE, Losses,
        PredictionShapes, {"regression"}, {"accuracy"})

\* Calls in PREDICT that differ in the candidates' export outputs.
ExportCalls ==
  Calls({PREDICT}, MaxBuilders, {}, TRUE, Losses,
        {"logits"}, ExportShapes, {"none"})

\* Calls in EVAL that differ in the candidates' eval metrics.
MetricCalls ==
  Calls({EVAL}, MaxBuilders, {}, TRUE, Losses,
        {"tensor"}, {"regression"}, MetricShapes)

\* Calls that differ in the iteration number and in what is rebuilt.
RebuildCalls ==
  \E iteration_number \in {-1, 0, 1}, mode \in ModeKeys,
     rebuilding \in BOOLEAN, replicate \in BOOLEAN :
    call = BuildArgs(iteration_number, mode, rebuilding, replicate, None,
             << InputBuilder(1, "dnn", 0, mode, "tensor", "regression", "accuracy") >>)

\* Direct calls of _Iteration(...), with arguments that pass and arguments
\* that fail each check.
SomeCandidate ==
  build_candidate(InputEnsembleSpec(1, "dnn", 0, EVAL, "tensor", "regression", "accuracy"),
                  FALSE, FALSE)
SomeEstimatorSpec ==
  EstimatorSpec(EVAL, TensorPredictions(Tensor(1, 2)), Tensor(1, 1),
                _create_train_op(<< SomeCandidate >>, EVAL), EmptyDict, None,
                [training_chief_hooks |-> << >>, training_hooks |-> << >>])
NewCalls ==
  \E number \in {PyInt(-1), PyInt(0), PyInt(1), PyFloat(1)},
     candidates \in {PyList(<< >>), PyList(<< SomeCandidate >>),
                     PyTuple(<< SomeCandidate >>)},
     estimator_spec \in {None, SomeEstimatorSpec},
     best_candidate_index \in {NoTensor, 0},
     subnetwork_reports \in {PyDict(EmptyDict), PyList(<< >>)},
     step \in {None, [tensor |-> "iteration_step"]} :
    call = [fn |-> "_Iteration", number |-> number, candidates |-> candidates,
            estimator_spec |-> estimator_spec,
            best_candidate_index |-> best_candidate_index,
            summaries |-> << >>, is_over_fn |-> "is_over_var_fn",
            subnetwork_reports |-> subnetwork_reports, step |-> step]

Init ==
  /\ \/ NameCalls
     \/ PredictionCalls
     \/ ExportCalls
     \/ MetricCalls
     \/ RebuildCalls
     \/ NewCalls
  /\ InitVariables

\* build_iteration(...) is called and returns or raises.
BuildIteration ==
  /\ call.fn = "build_iteration"
  /\ IsNone(result)
  /\ result' = build_iteration(call)
  /\ UNCHANGED << call, is_over_var, global_step, iteration_step, workers, interleaved >>

\* _Iteration(...) is called and returns or raises.
NewIteration ==
  /\ call.fn = "_Iteration"
  /\ IsNone(result)
  /\ result' = _Iteration(call.number, call.candidates, call.estimator_spec,
                          call.best_candidate_index, call.summaries,
                          call.is_over_fn, call.subnetwork_reports, call.step)
  /\ UNCHANGED << call, is_over_var, global_step, iteration_step, workers, interleaved >>

Next == BuildIteration \/ NewIteration

Spec == Init /\ [][Next]_vars


(* ------------------------ running the train op ------------------------- *)

\* Calls whose iteration is then trained: every mode, a previous ensemble and
\* at most MaxTrained builders.
TrainCalls ==
  \E mode \in ModeKeys, n \in 0..MaxTrained :
    \E name \in Names(TRUE, n) :
      call = BuildArgs(1, mode, FALSE, FALSE,
               InputEnsembleSpec(0, "t0_linear", 0, mode, "tensor", "regression", "accuracy"),
               [k \in 1..n |->
                 InputBuilder(k, name[k], 0, mode, "tensor", "regression", "accuracy")])

InitTrain ==
  /\ TrainCalls
  /\ InitVariables

\* build_iteration has returned an iteration.
Built == call.fn = "build_iteration" /\ ~IsNone(result) /\ result.ok

\* The train op of the iteration that was built.
TrainOp == result.value.estimator_spec.train_op

\* Ready without the wait for the control dependencies.
Ready_unordered(w, op) ==
  /\ Built
  /\ workers[w].running
  /\ op \notin workers[w].done
  /\ op \in TrainOp.control_dependencies \cup TrainOp.group

\* Worker w may run op now: it has not run it in this pass, and an op of the
\* group waits for the control dependencies.
Ready(w, op) ==
  /\ Built
  /\ workers[w].running
  /\ op \notin workers[w].done
  /\ \/ op \in TrainOp.control_dependencies
     \/ op \in TrainOp.group /\ TrainOp.control_dependencies \subseteq workers[w].done

\* The value tf.cond(is_over, assign True, no_op) leaves in is_over_var.
IsOverAssigned_plain(var, is_over) == is_over
IsOverAssigned(var, is_over) == IF is_over THEN TRUE ELSE var

\* A worker starts a pass of the train op (a session.run of it).
StartPass(w) ==
  /\ Built
  /\ ~workers[w].running
  /\ iteration_step < MaxStep
  /\ workers' = [workers EXCEPT ![w].running = TRUE]
  /\ interleaved' = (interleaved \/ \E v \in Workers \ {w} : workers[v].running)
  /\ UNCHANGED << call, result, is_over_var, global_step, iteration_step >>

\* A candidate's subnetwork or ensemble train op runs; what it trains is the
\* candidate's own.
TrainCandidate(w) ==
  /\ Built
  /\ \E op \in {o \in TrainOp.control_dependencies :
                  o.op \in {"subnetwork_train_op", "ensemble_train_op"}} :
       /\ Ready(w, op)
       /\ workers' = [workers EXCEPT ![w].done = @ \cup {op}]
  /\ UNCHANGED << call, result, is_over_var, global_step, iteration_step, interleaved >>

\* The op of _assign_is_over runs: it reads is_training of every candidate.
AssignIsOver(w) ==
  /\ Built
  /\ \E op \in {o \in TrainOp.control_dependencies : o.op = "assign_is_over"} :
       \* is_training: the candidates whose is_training reads true in this pass
       \E is_training \in SUBSET (0..(Len(result.value.candidates.v) - 1)) :
         /\ Ready(w, op)
         /\ is_over_var' = IsOverAssigned(is_over_var,
                                          \A c \in op.candidates : c \notin is_training)
         /\ workers' = [workers EXCEPT ![w].done = @ \cup {op},
                                       ![w].none_training = (is_training = {})]
  /\ UNCHANGED << call, result, global_step, iteration_step, interleaved >>

\* tf.no_op() runs.
NoOp(w) ==
  /\ Ready(w, [op |-> "no_op"])
  /\ [op |-> "no_op"] \in TrainOp.group
  /\ workers' = [workers EXCEPT ![w].done = @ \cup {[op |-> "no_op"]}]
  /\ UNCHANGED << call, result, is_over_var, global_step, iteration_step, interleaved >>

\* tf.assign_add(var, 1) without use_locking: the op reads the variable ...
AssignAddRead(w) ==
  /\ Built
  /\ \E op \in {o \in TrainOp.group : o.op = "assign_add"} :
       /\ Ready(w, op)
       /\ workers[w].read[op.var] = NotRead
       /\ workers' = [workers EXCEPT ![w].read[op.var] =
                        IF op.var = "step" THEN iteration_step ELSE global_step]
  /\ UNCHANGED << call, result, is_over_var, global_step, iteration_step, interleaved >>

\* ... and writes what it read plus one.
AssignAddWrite(w) ==
  /\ Built
  /\ \E op \in {o \in TrainOp.group : o.op = "assign_add"} :
       /\ Ready(w, op)
       /\ workers[w].read[op.var] # NotRead
       /\ IF op.var = "step"
          THEN iteration_step' = workers[w].read[op.var] + 1 /\ UNCHANGED global_step
          ELSE global_step' = workers[w].read[op.var] + 1 /\ UNCHANGED iteration_step
       /\ workers' = [workers EXCEPT ![w].done = @ \cup {op}]
  /\ UNCHANGED << call, result, is_over_var, interleaved >>

\* FinishPass for a pass that ends as soon as one op of the group has run.
FinishPass_early(w) ==
  /\ Built
  /\ workers[w].running
  /\ TrainOp.control_dependencies \subseteq workers[w].done
  /\ workers[w].done \cap TrainOp.group # {}
  /\ workers' = [workers EXCEPT ![w] = Idle]
  /\ UNCHANGED << call, result, is_over_var, global_step, iteration_step, interleaved >>

\* The pass ends when every op of the train op has run.
FinishPass(w) ==
  /\ Built
  /\ workers[w].running
  /\ workers[w].done = TrainOp.control_dependencies \cup TrainOp.group
  /\ workers' = [workers EXCEPT ![w] = Idle]
  /\ UNCHANGED << call, result, is_over_var, global_step, iteration_step, interleaved >>

NextTrain ==
  \/ BuildIteration
  \/ \E w \in Workers :
       \/ StartPass(w)
       \/ TrainCandidate(w)
       \/ AssignIsOver(w)
       \/ NoOp(w)
       \/ AssignAddRead(w)
       \/ AssignAddWrite(w)
       \/ FinishPass(w)

SpecTrain == InitTrain /\ [][NextTrain]_vars


(* ------------------------------ properties ----------------------------- *)

\* build_iteration was called and has returned or raised.
Called == call.fn = "build_iteration" /\ ~IsNone(result)

\* The fields of the iteration that build_iteration returned.
Candidates == result.value.candidates.v
BestIndex == result.value.best_candidate_index
EstimatorSpecBuilt == result.value.estimator_spec
Reports == result.value.subnetwork_reports.v
HasPrevious == ~IsNone(call.previous_ensemble_spec)
Offset == IF HasPrevious THEN 1 ELSE 0

\* C1: the completion flag is_over_var starts false and never changes from
\* true to false, whatever the workers' passes and the is_training values
\* they read: once true it is true in every later state.
C1_IsOverMonotone ==
  /\ is_over_var = FALSE
  /\ [][is_over_var => is_over_var']_vars

\* C1 witness: the flag is true, a pass has already advanced the iteration
\* step, and a worker has run the flag update again in a later pass.
C1_Witness ==
  /\ Built
  /\ is_over_var
  /\ iteration_step > 0
  /\ \E w \in Workers :
       /\ workers[w].running
       /\ \E op \in workers[w].done : op.op = "assign_is_over"

\* C2: the best candidate index of a built iteration is a position of the
\* candidate list, the candidate there has the least adanet_loss, and every
\* candidate before it has a strictly greater adanet_loss.
C2_BestIndexIsLeftmostMinimum ==
  Built =>
    /\ BestIndex \in 0..(Len(Candidates) - 1)
    /\ \A j \in 0..(Len(Candidates) - 1) :
         Candidates[BestIndex + 1].adanet_loss <= Candidates[j + 1].adanet_loss
    /\ \A j \in 0..(BestIndex - 1) :
         Candidates[j + 1].adanet_loss > Candidates[BestIndex + 1].adanet_loss

\* C2 witness: three candidates, the last two tie for the least loss below
\* the carryover's, and the index is 1.
C2_Witness ==
  /\ Built
  /\ HasPrevious
  /\ Len(Candidates) = 3
  /\ Candidates[2].adanet_loss = Candidates[3].adanet_loss
  /\ Candidates[2].adanet_loss < Candidates[1].adanet_loss
  /\ BestIndex = 1

\* C3: the candidates of a built iteration are the carryover candidate first
\* when a previous ensemble spec was given, then one candidate per builder in
\* the builders' order; so there are len(builders) + (1 if previous) of them.
C3_CandidatesInOrder ==
  Built =>
    /\ Len(Candidates) = Len(call.subnetwork_builders) + Offset
    /\ HasPrevious =>
         /\ Candidates[1].ensemble_spec = call.previous_ensemble_spec
         /\ Candidates[1].is_previous_best
    /\ \A k \in 1..Len(call.subnetwork_builders) :
         /\ ~Candidates[k + Offset].is_previous_best
         /\ Candidates[k + Offset].ensemble_spec =
              append_new_subnetwork(call.subnetwork_builders[k],
                EnsembleMode(call.mode, call.rebuilding,
                             call.replicate_ensemble_in_training))

\* C3 witness: an iteration built from a previous ensemble and two builders.
C3_Witness ==
  /\ Built
  /\ HasPrevious
  /\ Len(call.subnetwork_builders) = 2
  /\ Len(Candidates) = 3

\* The names build_iteration checks: the previous ensemble's, then the
\* builders'.
CheckedNames ==
  (IF HasPrevious THEN << call.previous_ensemble_spec.name >> ELSE << >>)
  \o [k \in 1..Len(call.subnetwork_builders) |-> call.subnetwork_builders[k].name]
NamesCollide ==
  \E i, j \in 1..Len(CheckedNames) : i < j /\ CheckedNames[i] = CheckedNames[j]
NameCollisionError ==
  ~result.ok /\ result.exc = "ValueError"
  /\ result.msg = "Two ensembles have the same name"

\* C4: build_iteration raises the naming-collision error, and returns no
\* iteration, exactly when two of the names it checks (the previous
\* ensemble's and the builders') are equal.
C4_NameCollisionFails ==
  Called => (NamesCollide <=> NameCollisionError)

\* C4 witness: no previous ensemble, two builders of the same name, and the
\* naming-collision error.
C4_Witness ==
  /\ Called
  /\ ~HasPrevious
  /\ Len(call.subnetwork_builders) = 2
  /\ call.subnetwork_builders[1].name = call.subnetwork_builders[2].name
  /\ NameCollisionError

\* C5: in a built iteration the best loss is absent exactly in PREDICT, the
\* eval metric ops are absent in TRAIN and PREDICT, the export outputs are
\* absent in TRAIN and EVAL, and outside TRAIN running the train op changes
\* neither is_over_var nor the global step nor the iteration step.
C5_ModeGating ==
  Built =>
    /\ (EstimatorSpecBuilt.loss = NoTensor) <=> (call.mode = PREDICT)
    /\ call.mode \in {TRAIN, PREDICT} => IsNone(EstimatorSpecBuilt.eval_metric_ops)
    /\ call.mode \in {TRAIN, EVAL} => IsNone(EstimatorSpecBuilt.export_outputs)
    /\ call.mode # TRAIN =>
         is_over_var = FALSE /\ global_step = 0 /\ iteration_step = 0

\* C5 witness: in PREDICT, with export outputs and no loss, a worker has run
\* the train op's only op.
C5_Witness ==
  /\ Built
  /\ call.mode = PREDICT
  /\ ~IsNone(EstimatorSpecBuilt.export_outputs)
  /\ EstimatorSpecBuilt.loss = NoTensor
  /\ \E w \in Workers : workers[w].done = {[op |-> "no_op"]}

\* C6: outside PREDICT a built iteration has one report per candidate, the
\* carryover candidate included, each with an "adanet_loss" metric; in
\* PREDICT it has no report.
C6_ReportPerCandidate ==
  Built =>
    IF call.mode = PREDICT THEN DOMAIN Reports = {}
    ELSE /\ Cardinality(DOMAIN Reports) = Len(Candidates)
         /\ \A name \in DOMAIN Reports :
              "adanet_loss" \in DOMAIN Reports[name].metrics

\* A worker's pass has begun to advance a step counter.
Advancing(w) ==
  \/ \E op \in workers[w].done : op.op = "assign_add"
  \/ workers[w].read.global_step # NotRead
  \/ workers[w].read.step # NotRead

\* C7: in TRAIN, a worker's pass begins to advance the global step or the
\* iteration step only when every candidate train op and the flag update of
\* the train op have run in that pass.
C7_StepsAfterTrainOps ==
  (Built /\ call.mode = TRAIN) =>
    \A w \in Workers :
      Advancing(w) => TrainOp.control_dependencies \subseteq workers[w].done

\* C7 witness: a pass in TRAIN with a subnetwork train op, an ensemble train
\* op and the flag update done has advanced one of the two counters.
C7_Witness ==
  /\ Built
  /\ call.mode = TRAIN
  /\ \E w \in Workers :
       /\ Cardinality(TrainOp.control_dependencies) = 3
       /\ TrainOp.control_dependencies \subseteq workers[w].done
       /\ Cardinality(workers[w].done) = 4

\* The candidates' predictions have one shape and their export outputs the
\* same keys and kinds.
SameShapes ==
  \A i, j \in 1..Len(Candidates) :
    LET a == Candidates[i].ensemble_spec
        b == Candidates[j].ensemble_spec
    IN /\ a.predictions.tag = b.predictions.tag
       /\ a.predictions.tag = "dict" => DOMAIN a.predictions.d = DOMAIN b.predictions.d
       /\ call.mode = PREDICT =>
            /\ DOMAIN a.export_outputs = DOMAIN b.export_outputs
            /\ \A key \in DOMAIN a.export_outputs :
                 a.export_outputs[key].type = b.export_outputs[key].type

\* C8: when the candidates' predictions have one shape and their export
\* outputs the same keys and kinds, the best predictions, the best loss
\* (outside PREDICT) and the export outputs (in PREDICT) of a built iteration
\* are those of the candidate at the best candidate index.
C8_BestIsTheBestCandidates ==
  (Built /\ SameShapes) =>
    LET best == Candidates[BestIndex + 1].ensemble_spec
    IN /\ EstimatorSpecBuilt.predictions = best.predictions
       /\ call.mode # PREDICT => EstimatorSpecBuilt.loss = best.loss
       /\ call.mode = PREDICT => EstimatorSpecBuilt.export_outputs = best.export_outputs

\* The arguments of a direct call of _Iteration that the checks refuse.
Malformed ==
  \/ call.number.type # "int"
  \/ call.number.v < 0
  \/ call.candidates.type # "list"
  \/ call.candidates.v = << >>
  \/ IsNone(call.estimator_spec)
  \/ call.best_candidate_index = NoTensor
  \/ IsNone(call.step)
  \/ call.subnetwork_reports.type # "dict"

\* The field conditions of an _Iteration.
WellFormed(iteration) ==
  /\ iteration.number.type = "int"
  /\ iteration.number.v >= 0
  /\ iteration.candidates.type = "list"
  /\ iteration.candidates.v # << >>
  /\ ~IsNone(iteration.estimator_spec)
  /\ iteration.best_candidate_index # NoTensor
  /\ ~IsNone(iteration.step)
  /\ iteration.subnetwork_reports.type = "dict"

\* C9: _Iteration raises an error for every malformed argument list;
\* build_iteration with no builder raises an error, with or without a
\* previous ensemble; and every _Iteration returned by either is well formed.
C9_NoMalformedIteration ==
  ~IsNone(result) =>
    /\ (call.fn = "_Iteration" /\ Malformed) =>
         ~result.ok /\ result.exc = "ValueError"
    /\ (call.fn = "build_iteration" /\ call.subnetwork_builders = << >>) =>
         ~result.ok /\ result.exc = "ValueError"
    /\ result.ok => WellFormed(result.value)

\* C9 witness: a direct call whose only fault is an empty candidate list has
\* raised the error.
C9_Witness ==
  /\ call.fn = "_Iteration"
  /\ ~IsNone(result)
  /\ ~result.ok
  /\ call.number = PyInt(0)
  /\ call.candidates = PyList(<< >>)
  /\ ~IsNone(call.estimator_spec)
  /\ call.best_candidate_index # NoTensor
  /\ ~IsNone(call.step)
  /\ call.subnetwork_reports.type = "dict"

\* C10: in PREDICT, a call of build_iteration with at least one builder, one
\* of whose candidates has an export output of a kind that is none of
\* ClassificationOutput, RegressionOutput and PredictOutput, raises a
\* TypeError and returns no iteration.
C10_UnknownKindRaises ==
  ( /\ Called
    /\ call.mode = PREDICT
    /\ \E k \in 1..Len(call.subnetwork_builders) :
         \E key \in DOMAIN call.subnetwork_builders[k].ensemble_spec.export_outputs :
           call.subnetwork_builders[k].ensemble_spec.export_outputs[key].type
             = "ExportOutput" )
  => (~result.ok /\ result.exc = "TypeError")

\* The export outputs the builders of the call give to their candidates.
ExportOutputsOf(k) == call.subnetwork_builders[k].ensemble_spec.export_outputs
RecognizedKinds == {"ClassificationOutput", "RegressionOutput", "PredictOutput"}

\* A call in PREDICT, without a previous ensemble, whose builders all give
\* export outputs of recognized types.
RecognizedExportCall ==
  /\ Called
  /\ call.mode = PREDICT
  /\ ~HasPrevious
  /\ ~NamesCollide
  /\ \A k \in 1..Len(call.subnetwork_builders) :
       \A key \in DOMAIN ExportOutputsOf(k) :
         ExportOutputsOf(k)[key].type \in RecognizedKinds

\* Two candidates give the types a and b to one export key.
KindsMeet(a, b) ==
  \E i, j \in 1..Len(call.subnetwork_builders) :
    \E key \in DOMAIN ExportOutputsOf(i) \cap DOMAIN ExportOutputsOf(j) :
      ExportOutputsOf(i)[key].type = a /\ ExportOutputsOf(j)[key].type = b
KindMismatch == \E a, b \in RecognizedKinds : a # b /\ KindsMeet(a, b)

RunsFlagUpdate(w) ==
  \E op \in workers'[w].done \ workers[w].done : op.op = "assign_is_over"

\* C12: the step in which a pass runs its flag update leaves is_over_var
\* equal to (is_over_var before) or (no candidate of the iteration, the
\* carryover included, read as training in that pass); every other step
\* leaves is_over_var unchanged.
C12_FlagIsOrOfNoneTraining ==
  [][ /\ \A w \in Workers :
           RunsFlagUpdate(w) =>
             is_over_var' = (is_over_var \/ workers'[w].none_training)
      /\ (\A w \in Workers : ~RunsFlagUpdate(w)) => is_over_var' = is_over_var
    ]_vars

\* C12 witness: with a carryover among the candidates, one worker's pass
\* found no candidate training and the flag is true, while the other
\* worker's pass has run its flag update and found a candidate training.
C12_Witness ==
  /\ Built
  /\ HasPrevious
  /\ is_over_var
  /\ \E v, w \in Workers :
       /\ \E op \in workers[v].done : op.op = "assign_is_over"
       /\ workers[v].none_training
       /\ \E op \in workers[w].done : op.op = "assign_is_over"
       /\ ~workers[w].none_training

\* No worker is within a pass.
NoPassRunning == \A w \in Workers : ~workers[w].running

\* The two increments of the train op.
Increments == {op \in TrainOp.group : op.op = "assign_add"}

\* C13 as stated: in TRAIN, after any sequence of completed passes, also of
\* several workers interleaving, the global step has grown by as much as the
\* iteration step.
C13_StepsAdvanceTogether ==
  (Built /\ call.mode = TRAIN /\ NoPassRunning) => global_step = iteration_step

\* C13 amended: in TRAIN every pass that ends has run both increments, and
\* as long as no pass has started while another was running the global step
\* has grown by as much as the iteration step whenever no pass is running.
C13_StepsAdvanceTogetherWhenSerial ==
  [][ (Built /\ call.mode = TRAIN) =>
        /\ \A w \in Workers :
             (workers[w].running /\ ~workers'[w].running) =>
               (Cardinality(Increments) = 2 /\ Increments \subseteq workers[w].done)
        /\ (~interleaved' /\ \A w \in Workers : ~workers'[w].running) =>
             global_step' = iteration_step'
    ]_vars

\* C13 witness: two passes have run one after the other in TRAIN and both
\* counters are at 2.
C13_Witness ==
  /\ Built
  /\ call.mode = TRAIN
  /\ ~interleaved
  /\ NoPassRunning
  /\ global_step = 2
  /\ iteration_step = 2

\* The metric names candidate k of the built iteration produces.
MetricNames(k) ==
  IF IsNone(Candidates[k].ensemble_spec.eval_metrics) THEN {}
  ELSE Candidates[k].ensemble_spec.eval_metrics.metric_fn

\* The names every candidate produces, and the root names of those that end
\* in "/adanet/adanet_weighted_ensemble", "loss" left out.
SharedMetricNames ==
  {name \in UNION {MetricNames(k) : k \in 1..Len(Candidates)} :
     \A k \in 1..Len(Candidates) : name \in MetricNames(k)}
Suffixed ==
  {[name |-> "accuracy/adanet/adanet_weighted_ensemble", root |-> "accuracy"],
   [name |-> "loss/adanet/adanet_weighted_ensemble", root |-> "loss"]}
RootMetrics == {m \in Suffixed : m.name \in SharedMetricNames /\ m.root # "loss"}

\* C14: in EVAL the keys of the best eval metric ops are the metric names
\* that every candidate produces, plus the root name of each such name that
\* ends in "/adanet/adanet_weighted_ensemble" unless the root is "loss"; the
\* root entry is the same (value, update op) pair as the suffixed entry.
C14_BestEvalMetricKeys ==
  (Built /\ call.mode = EVAL) =>
    /\ DOMAIN EstimatorSpecBuilt.eval_metric_ops
         = SharedMetricNames \cup {m.root : m \in RootMetrics}
    /\ \A m \in RootMetrics :
         EstimatorSpecBuilt.eval_metric_ops[m.root]
           = EstimatorSpecBuilt.eval_metric_ops[m.name]

\* C14 witness: of two candidates only the second produces "accuracy", both
\* produce the two suffixed names, and the keys are the two suffixed names
\* and the root "accuracy".
C14_Witness ==
  /\ Built
  /\ call.mode = EVAL
  /\ Len(Candidates) = 2
  /\ "accuracy" \in MetricNames(2) \ MetricNames(1)
  /\ DOMAIN EstimatorSpecBuilt.eval_metric_ops
       = {"accuracy", "accuracy/adanet/adanet_weighted_ensemble",
          "loss/adanet/adanet_weighted_ensemble"}

\* Two or more candidates, all with dictionaries of predictions, whose key
\* sets are not all the same.
DifferentPredictionKeys ==
  /\ Len(Candidates) >= 2
  /\ \A k \in 1..Len(Candidates) : Candidates[k].ensemble_spec.predictions.tag = "dict"
  /\ \E i, j \in 1..Len(Candidates) :
       DOMAIN Candidates[i].ensemble_spec.predictions.d
         # DOMAIN Candidates[j].ensemble_spec.predictions.d

\* C15: with two or more candidates whose dictionaries of predictions have
\* different key sets, every key of the best predictions holds a value read
\* within its stacked list, and that value is the prediction the candidate
\* at the best candidate index gives under the key.
C15_BestPredictionsPerKey ==
  (Built /\ DifferentPredictionKeys) =>
    LET best == Candidates[BestIndex + 1].ensemble_spec.predictions.d
    IN \A key \in DOMAIN EstimatorSpecBuilt.predictions.d :
         /\ EstimatorSpecBuilt.predictions.d[key] # OutOfRange
         /\ key \in DOMAIN best
         /\ EstimatorSpecBuilt.predictions.d[key] = best[key]

====
